---- MODULE Spec2Model ----
(***************************************************************************)
(* Fitch-style proof ledger, rule engine and automated prover of the       *)
(* propositional subsystem (src/propositional).                            *)
(*                                                                         *)
(* A formula text is a sequence of one-character strings.  A Symbol tree   *)
(* is a record [symb, kids, formula]; kids is <<>> for a leaf and          *)
(* <<left, right>> for a connective (negation stores its operand twice).   *)
(* A Sentence is identified with its root Symbol.                          *)
(***************************************************************************)
EXTENDS Integers, Sequences, FiniteSets, TLC

VARIABLES theorems, rules, indents, accesses, premises,
          lastOp, prevOp, snap, err,
          stack, flags, ret, outcome, goal,
          inText, inText2, sentA, sentB, phase, verdict

ledgerVars == <<theorems, rules, indents, accesses, premises>>
manualVars == <<lastOp, prevOp, snap, err>>
proverVars == <<stack, flags, ret, outcome, goal>>
sentenceVars == <<inText, inText2, sentA, sentB, phase, verdict>>
vars == <<theorems, rules, indents, accesses, premises,
          lastOp, prevOp, snap, err, stack, flags, ret, outcome, goal,
          inText, inText2, sentA, sentB, phase, verdict>>

(***************************************************************************)
(* Bounds of the model.                                                    *)
(***************************************************************************)
MaxLines == 6
MaxDepth == 6

(***************************************************************************)
(* basis.py                                                                *)
(***************************************************************************)
BINARIES == <<"v", "&", "^", ">", "-">>
CONNECTIVES == <<"#", "~", "v", "&", "^", ">", "-">>
\* the glyphs of SPEC_CONNECTIVES, written as ASCII tokens
SPEC_CONNECTIVES == <<"FALSUM", "NOT", " OR ", " AND ", " XOR ", " IMP  ", " IFF  ">>
VALID == {"(", ")", "#", "~", "v", "&", "^", ">", "-", " "}

Range(s) == {s[i] : i \in 1..Len(s)}

None == [symb |-> "None", kids |-> <<>>, formula |-> <<>>]

TFS(c, p, q) ==
    CASE c = "v" -> p \/ q
      [] c = "&" -> p /\ q
      [] c = ">" -> ~p \/ q
      [] c = "-" -> (~p \/ q) /\ (~q \/ p)
      [] c = "^" -> ~((~p \/ q) /\ (~q \/ p))
      [] OTHER -> FALSE

RECURSIVE SymbolCall(_, _)
SymbolCall(s, vals) ==
    IF s.symb = "#" THEN FALSE
    ELSE IF s.symb = "~" THEN ~SymbolCall(s.kids[1], vals)
    ELSE IF s.kids = <<>> THEN vals[s.symb]
    ELSE TFS(s.symb, SymbolCall(s.kids[1], vals), SymbolCall(s.kids[2], vals))

(***************************************************************************)
(* sentence.py                                                             *)
(***************************************************************************)
Atom(c) == [symb |-> c, kids |-> <<>>, formula |-> <<c>>]

\* group depth after the first n characters of formula
RECURSIVE GroupDepth(_, _)
GroupDepth(formula, n) ==
    IF n = 0 THEN 0
    ELSE GroupDepth(formula, n - 1)
         + (IF formula[n] = "(" THEN 1 ELSE 0)
         - (IF formula[n] = ")" THEN 1 ELSE 0)

\* the scan of _enclosed from position start (0-based): the 1-based
\* positions of the binary connectives at group depth 0
TopConnectives(formula, start) ==
    {i \in (start + 1)..Len(formula) :
        /\ GroupDepth(formula, i) - GroupDepth(formula, start) = 0
        /\ i # Len(formula)
        /\ formula[i] \in Range(BINARIES)}

EnclosedFlag(formula, start) == TopConnectives(formula, start) = {}

Untrim(arg) ==
    IF (arg[1] # "~" /\ Len(arg) > 2) \/ ~EnclosedFlag(arg, 0)
    THEN <<"(">> \o arg \o <<")">>
    ELSE arg

First(s) == IF s.kids = <<>> THEN None ELSE s.kids[1]
Second(s) == IF s.kids = <<>> THEN None ELSE s.kids[2]
Mc(s) == s.symb

Replace(formula) ==
    [i \in 1..Len(formula) |->
        IF \E k \in 1..Len(CONNECTIVES) : CONNECTIVES[k] = formula[i]
        THEN SPEC_CONNECTIVES[CHOOSE k \in 1..Len(CONNECTIVES) : CONNECTIVES[k] = formula[i]]
        ELSE formula[i]]

Str(s) == Replace(s.formula)

SentenceEq(a, b) == Str(a) = Str(b)

Negate(s) ==
    IF s.symb = "~" THEN First(s)
    ELSE [symb |-> "~", kids |-> <<s, s>>, formula |-> <<"~">> \o Untrim(s.formula)]

Join(s, other, connective) ==
    [symb |-> connective, kids |-> <<s, other>>,
     formula |-> Untrim(s.formula) \o <<connective>> \o Untrim(other.formula)]

RECURSIVE Connect(_, _)
Connect(sentences, connective) ==
    IF Len(sentences) = 0 THEN None
    ELSE IF Len(sentences) = 1 THEN sentences[1]
    ELSE LET num_args == Len(sentences) \div 2
         IN Join(Connect(SubSeq(sentences, 1, num_args), connective),
                 Connect(SubSeq(sentences, num_args + 1, Len(sentences)), connective),
                 connective)

\* an exception leaving the construction of a Sentence
Raised(kind) == [symb |-> kind, kids |-> <<>>, formula |-> <<>>]
IsRaised(s) == s.symb \in {"IndexError", "KeyError", "TypeError"}

\* Sentence._trim
Trim(arg) ==
    IF Len(arg) \in {3, 4} /\ arg[1] = "(" /\ arg[Len(arg)] = ")"
    THEN SubSeq(arg, 2, Len(arg) - 1)
    ELSE arg

\* sorted(connectives.keys()), as 1-based positions
RECURSIVE SortedSeq(_)
SortedSeq(S) ==
    IF S = {} THEN <<>>
    ELSE LET m == CHOOSE x \in S : \A y \in S : x <= y
         IN <<m>> \o SortedSeq(S \ {m})

\* a grouping that makes the first group the larger one
SameScopeLeftHeavy(formula, connectives) ==
    LET connindex == SortedSeq(connectives)
    IN IF Len(connindex) > 1
       THEN LET num_args == Len(connindex) + 1
                num_first_args == (num_args + 1) \div 2
                arg1_pos == connindex[num_first_args]
                prefix == SubSeq(formula, 1, arg1_pos - 1)
                arg1 == IF num_first_args > 1
                        THEN <<"(">> \o prefix \o <<")">>
                        ELSE prefix
            IN [formula |-> arg1 \o <<formula[arg1_pos]>> \o <<"(">>
                            \o SubSeq(formula, arg1_pos + 1, Len(formula))
                            \o <<")">>,
                mc_pos |-> Len(arg1) + 1]
       ELSE [formula |-> formula, mc_pos |-> connindex[1]]

\* Sentence._same_scope: the regrouped formula and the 1-based position of
\* its main connective
SameScope(formula, connectives) ==
    LET connindex == SortedSeq(connectives)
    IN IF Len(connindex) > 1
       THEN LET num_args == Len(connindex) + 1
                num_first_args == num_args \div 2
                arg1_pos == connindex[num_first_args]
                prefix == SubSeq(formula, 1, arg1_pos - 1)
                arg1 == IF num_first_args > 1
                        THEN <<"(">> \o prefix \o <<")">>
                        ELSE prefix
            IN [formula |-> arg1 \o <<formula[arg1_pos]>> \o <<"(">>
                            \o SubSeq(formula, arg1_pos + 1, Len(formula))
                            \o <<")">>,
                mc_pos |-> Len(arg1) + 1]
       ELSE [formula |-> formula, mc_pos |-> connindex[1]]

\* Sentence._parse with _setup and the negation branch of _enclosed; the
\* loop that strips an enclosing pair repeats the head of _parse on the
\* stripped text
RECURSIVE Parse(_)
Parse(formula) ==
    IF Len(formula) = 1 THEN Atom(formula[1])
    ELSE IF Len(formula) = 0 THEN Raised("IndexError")
    ELSE LET start == IF formula[1] = "~" THEN 1 ELSE 0
         IN IF EnclosedFlag(formula, start)
            THEN IF start = 1
                 THEN LET neg == Parse(Tail(formula))
                      IN IF IsRaised(neg) THEN neg
                         ELSE [symb |-> "~", kids |-> <<neg, neg>>,
                               formula |-> IF Len(neg.formula) > 1
                                           THEN <<"~", "(">> \o neg.formula \o <<")">>
                                           ELSE <<"~">> \o neg.formula]
                 ELSE Parse(SubSeq(formula, 2, Len(formula) - 1))
            ELSE LET scoped == SameScope(formula, TopConnectives(formula, start))
                     mc == scoped.formula[scoped.mc_pos]
                     arg1 == Parse(Trim(SubSeq(scoped.formula, 1, scoped.mc_pos - 1)))
                     arg2 == Parse(Trim(SubSeq(scoped.formula, scoped.mc_pos + 1,
                                               Len(scoped.formula))))
                 IN IF IsRaised(arg1) THEN arg1
                    ELSE IF IsRaised(arg2) THEN arg2
                    ELSE [symb |-> mc, kids |-> <<arg1, arg2>>,
                          formula |-> Untrim(arg1.formula) \o <<mc>>
                                      \o (IF arg2.symb # mc
                                          THEN Untrim(arg2.formula)
                                          ELSE arg2.formula)]

\* the exception of the first evaluation of the tree by TruthFunction.__init__
\* ("" when there is none): a leaf that is a connective calls its missing
\* operand, a leaf that is no atomic of the formula is missing from vals
RECURSIVE CallRaises(_)
CallRaises(s) ==
    IF s.symb = "#" THEN ""
    ELSE IF s.symb = "~"
         THEN IF s.kids = <<>> THEN "TypeError" ELSE CallRaises(s.kids[1])
    ELSE IF s.kids = <<>>
         THEN IF s.symb \in Range(BINARIES) THEN "TypeError"
              ELSE IF s.symb \in VALID THEN "KeyError"
              ELSE ""
    ELSE IF CallRaises(s.kids[1]) # "" THEN CallRaises(s.kids[1])
         ELSE CallRaises(s.kids[2])

\* the inverse replacement of Sentence.__init__: brackets to parentheses and
\* the glyphs of SPEC_CONNECTIVES to CONNECTIVES
Unreplace(text) ==
    [i \in 1..Len(text) |->
        IF text[i] = "[" THEN "("
        ELSE IF text[i] = "]" THEN ")"
        ELSE IF \E k \in 1..Len(SPEC_CONNECTIVES) : SPEC_CONNECTIVES[k] = text[i]
        THEN CONNECTIVES[CHOOSE k \in 1..Len(SPEC_CONNECTIVES) : SPEC_CONNECTIVES[k] = text[i]]
        ELSE text[i]]

\* formula.replace(' ', '')
Normalise(text) == SelectSeq(Unreplace(text), LAMBDA c : c # " ")

\* Sentence(text): the root Symbol, or the exception raised
SentenceOf(text) ==
    LET root == Parse(Normalise(text))
    IN IF IsRaised(root) THEN root
       ELSE IF CallRaises(root) # "" THEN Raised(CallRaises(root))
       ELSE root

\* Sentence._equal
RECURSIVE Equal(_, _)
Equal(curr, other) ==
    IF other = None THEN FALSE
    ELSE LET this_eq == curr.symb = other.symb
         IN IF curr.kids # <<>>
            THEN LET left_eq == Equal(curr.kids[1], First(other))
                                \/ Equal(curr.kids[1], Second(other))
                     right_eq == Equal(curr.kids[2], Second(other))
                                 \/ Equal(curr.kids[2], First(other))
                 IN this_eq /\ left_eq /\ right_eq
            ELSE IF other.kids # <<>> THEN FALSE
            ELSE this_eq

DeepEqual(s, other) == IF other = None THEN FALSE ELSE Equal(s, other)

(***************************************************************************)
(* truthfunction.py                                                        *)
(***************************************************************************)
\* sorted() on one-character atomics follows the code points
AtomicOrder == <<"A", "B", "P", "Q", "R", "S", "T", "U">>

Atomics(s) ==
    LET present == Range(s.formula) \ VALID
    IN SelectSeq(AtomicOrder, LAMBDA c : c \in present)

RECURSIVE Pow2(_)
Pow2(n) == IF n = 0 THEN 1 ELSE 2 * Pow2(n - 1)

\* row i (0-based) of _canonical over the sequence atomics
CanonicalRow(atomics, i) ==
    [c \in Range(atomics) |->
        LET j == (CHOOSE k \in 1..Len(atomics) : atomics[k] = c) - 1
        IN (i \div Pow2(Len(atomics) - j - 1)) % 2 = 0]

Canonical(atomics) ==
    [r \in 1..Pow2(Len(atomics)) |-> CanonicalRow(atomics, r - 1)]

TfTrue(s) ==
    SelectSeq(Canonical(Atomics(s)), LAMBDA vals : SymbolCall(s, vals))

BoolChars(b) == IF b THEN <<"T", "r", "u", "e">> ELSE <<"F", "a", "l", "s", "e">>

RECURSIVE Flatten(_)
Flatten(ss) == IF ss = <<>> THEN <<>> ELSE Head(ss) \o Flatten(Tail(ss))

\* str(tf).replace(' ', ''): the atomics, a newline, then one row per
\* assignment: the first letter of each value and the value of the sentence
TfString(s) ==
    LET atomics == Atomics(s)
        canon == Canonical(atomics)
        row(vals) == [k \in 1..Len(atomics) |-> BoolChars(vals[atomics[k]])[1]]
                     \o BoolChars(SymbolCall(s, vals)) \o <<"\n">>
    IN atomics \o <<"\n">> \o Flatten([r \in 1..Len(canon) |-> row(canon[r])])

TfEq(a, b) == TfString(a) = TfString(b)

\* dict(vals, **other_vals)
Merge(vals, other_vals) ==
    [c \in DOMAIN vals \cup DOMAIN other_vals |->
        IF c \in DOMAIN other_vals THEN other_vals[c] ELSE vals[c]]

\* an entailment test that tries only the first extension over the atomics
\* exclusive to the other formula
TfGtFirstExtension(a, b) ==
    IF TfEq(a, b) THEN FALSE
    ELSE LET extra == SelectSeq(Atomics(b), LAMBDA c : c \notin Range(Atomics(a)))
             other_canon == Canonical(extra)
             true == TfTrue(a)
         IN \A i \in 1..Len(true) : SymbolCall(b, Merge(true[i], other_canon[1]))

TfGt(a, b) ==
    IF TfEq(a, b) THEN FALSE
    ELSE LET extra == SelectSeq(Atomics(b), LAMBDA c : c \notin Range(Atomics(a)))
             other_canon == Canonical(extra)
             true == TfTrue(a)
         IN \A i \in 1..Len(true) : \A j \in 1..Len(other_canon) :
                SymbolCall(b, Merge(true[i], other_canon[j]))

TfGe(a, b) == TfEq(a, b) \/ TfGt(a, b)

\* Sentence.equivalent
Equivalent(a, b) == TfEq(a, b)

\* TruthFunction defines no __lt__: a < b is evaluated as b.__gt__(a)
TfLt(a, b) == TfGt(b, a)

Taut(s, val) ==
    LET canon == Canonical(Atomics(s))
    IN IF val THEN \A r \in 1..Len(canon) : SymbolCall(s, canon[r])
       ELSE ~(\E r \in 1..Len(canon) : SymbolCall(s, canon[r]))

(***************************************************************************)
(* proof.py: the ledger as a value                                         *)
(***************************************************************************)
Ledger == [theorems |-> theorems, rules |-> rules, indents |-> indents,
           accesses |-> accesses]

Rule(name, arguments) == [name |-> name, arguments |-> arguments]

NewProof(prems) ==
    [theorems |-> prems,
     rules |-> [i \in 1..Len(prems) |-> Rule("Premise", <<>>)],
     indents |-> [i \in 1..Len(prems) |-> 0],
     accesses |-> [i \in 1..Len(prems) |-> 1]]

LLen(L) == Len(L.theorems)
LLine(L) == Len(L.theorems)
LIndent(L) == IF LLen(L) = 0 THEN 0 ELSE L.indents[Len(L.indents)]
LAccess(L) == IF Len(L.accesses) = 0 THEN 1 ELSE L.accesses[Len(L.accesses)]

DigitChars == <<"0", "1", "2", "3", "4", "5", "6", "7", "8", "9">>

RECURSIVE DecStr(_)
DecStr(n) ==
    IF n < 10 THEN <<DigitChars[n + 1]>>
    ELSE DecStr(n \div 10) \o <<DigitChars[(n % 10) + 1]>>

StartsWith(a, b) == Len(b) <= Len(a) /\ SubSeq(a, 1, Len(b)) = b

SetMax(S) == CHOOSE x \in S : \A y \in S : y <= x

LevelAccesses(L, indent) ==
    {L.accesses[i] : i \in {k \in 1..Len(L.accesses) :
                                Len(DecStr(L.accesses[k])) = indent + 1}}

\* max() of an empty list
GetAccessRaises(L, indent) ==
    indent \in Range(L.indents) /\ LevelAccesses(L, indent) = {}

\* a numbering that never adds a digit
GetAccessSameLength(L, indent) ==
    IF indent \notin Range(L.indents) THEN LAccess(L) + 1
    ELSE SetMax(LevelAccesses(L, indent)) + 1

GetAccess(L, indent) ==
    IF indent \notin Range(L.indents) THEN 10 * LAccess(L) + 1
    ELSE SetMax(LevelAccesses(L, indent)) + 1

\* list index k (0-based, Python semantics) is out of range for length n
BadIndex(n, k) == k >= n \/ k < 0 - n

PyIndex(seq, k) == IF k >= 0 THEN seq[k + 1] ELSE seq[Len(seq) + k + 1]

CanAccessRaises(L, accessee, accessed) ==
    LET a == IF accessee = LLen(L) + 1 THEN accessee - 1 ELSE accessee
    IN BadIndex(Len(L.accesses), a - 1) \/ BadIndex(Len(L.accesses), accessed - 1)

\* visibility that demands the very same scope code instead of a prefix
CanAccessSameCode(L, accessee, accessed) ==
    LET a == IF accessee = LLen(L) + 1 THEN accessee - 1 ELSE accessee
    IN DecStr(PyIndex(L.accesses, a - 1)) = DecStr(PyIndex(L.accesses, accessed - 1))

CanAccess(L, accessee, accessed) ==
    LET a == IF accessee = LLen(L) + 1 THEN accessee - 1 ELSE accessee
    IN StartsWith(DecStr(PyIndex(L.accesses, a - 1)),
                  DecStr(PyIndex(L.accesses, accessed - 1)))

\* the line numbers Proof.accessible(accessee) yields, in ledger order
Accessible(L, accessee) ==
    SelectSeq([i \in 1..LLen(L) |-> i], LAMBDA i : CanAccess(L, accessee, i))

Priors(L) == Accessible(L, LLine(L))

AppendSentence(L, indent, theorem, rule, access) ==
    LET acc == IF access = 0
               THEN IF indent > LIndent(L) THEN GetAccess(L, indent)
                    ELSE IF indent = LIndent(L) THEN LAccess(L)
                    ELSE LAccess(L) \div 10
               ELSE access
    IN [theorems |-> Append(L.theorems, theorem),
        rules |-> Append(L.rules, rule),
        indents |-> Append(L.indents, indent),
        accesses |-> Append(L.accesses, acc)]

PopRaises(L) == Len(L.indents) = 0

\* a pop that leaves the scope codes alone
PopLedgerKeepsAccess(L) ==
    [theorems |-> SubSeq(L.theorems, 1, Len(L.theorems) - 1),
     rules |-> SubSeq(L.rules, 1, Len(L.rules) - 1),
     indents |-> SubSeq(L.indents, 1, Len(L.indents) - 1),
     accesses |-> L.accesses]

PopLedger(L) ==
    [theorems |-> SubSeq(L.theorems, 1, Len(L.theorems) - 1),
     rules |-> SubSeq(L.rules, 1, Len(L.rules) - 1),
     indents |-> SubSeq(L.indents, 1, Len(L.indents) - 1),
     accesses |-> SubSeq(L.accesses, 1, Len(L.accesses) - 1)]

(***************************************************************************)
(* rule.py                                                                 *)
(*                                                                         *)
(* Cited lines: an integer for reit, #E, ~E, &E, vI; <<a, b>> for #I, ~I,  *)
(* &I, >E, >I, -E; <<l, <<a, b>>, <<c, d>>>> for vE; <<<<a, b>>, <<c, d>>>> *)
(* for -I.  A displayed argument is <<n>> for a line number and <<a, b>>   *)
(* for the text 'a - b'.                                                   *)
(***************************************************************************)
IntRules == {"reit", "#E", "~E", "&E", "vI"}
ListRules == {"#I", "~I", "&I", ">E", ">I", "-E", "vE", "-I"}
ClosingRules == {"~I", "vE", ">I", "-I"}

Reverse(seq) == [i \in 1..Len(seq) |-> seq[Len(seq) + 1 - i]]

Min2(a, b) == IF a <= b THEN a ELSE b
Max2(a, b) == IF a <= b THEN b ELSE a

SectionOrder(lines, start, stop) ==
    LET s1 == lines[start + 1]
        s2 == lines[stop + 1]
    IN IF s2[start + 1] < s1[start + 1]
       THEN << <<s2[1], s2[Len(s2)]>>, <<s1[1], s1[Len(s1)]>> >>
       ELSE << <<s1[1], s1[Len(s1)]>>, <<s2[1], s2[Len(s2)]>> >>

\* Proof.__getitem__ for an int: theorems[line - 1]
GetItem(L, line) == PyIndex(L.theorems, line - 1)

\* the line numbers a rule reads from the ledger
CitedLines(rule, ls) ==
    CASE rule \in IntRules -> {ls}
      [] rule = "#I" -> {}
      [] rule = "~I" -> {Min2(ls[1], ls[2])}
      [] rule \in {"&I", ">E", "-E"} -> {ls[1], ls[2]}
      [] rule = "vE" -> {ls[2][Len(ls[2])]}
      [] rule = "-I" -> {ls[1][1], ls[1][Len(ls[1])]}
      [] OTHER -> {}

Result(rule, new, indent, access) ==
    [exc |-> "", rule |-> rule, new |-> new, indent |-> indent, access |-> access]

Raise(exc) ==
    [exc |-> exc, rule |-> Rule("", <<>>), new |-> None, indent |-> 0, access |-> 0]

\* a choice that takes the first cited line for the conditional
CondElimFirstCited(L, ls) == GetItem(L, ls[1])

\* Rule.apply, '>E': which of the two cited lines is the conditional
CondElimConditional(L, ls) ==
    IF Mc(GetItem(L, ls[1])) = ">"
       /\ SentenceEq(First(GetItem(L, ls[1])), GetItem(L, ls[2]))
    THEN GetItem(L, ls[1])
    ELSE GetItem(L, ls[2])

\* Rule.apply(rule, premises, lines, other, fl)
Apply(rule, L, lines, other, fl) ==
    LET ls == IF ~fl /\ rule \in ListRules THEN Reverse(lines) ELSE lines
        indent == LIndent(L)
        P(n) == GetItem(L, n)
    IN IF rule = "assume"
       THEN LET ind == indent + (IF fl THEN 1 ELSE 0)
            IN IF GetAccessRaises(L, ind) THEN Raise("ValueError")
               ELSE Result(Rule("Assume", <<>>), other, ind, GetAccess(L, ind))
       ELSE IF rule = ">I" THEN Raise("TypeError")
       ELSE IF rule = "vE" /\ ~fl THEN Raise("TypeError")
       ELSE IF \E n \in CitedLines(rule, ls) : BadIndex(LLen(L), n - 1)
       THEN Raise("IndexError")
       ELSE
       CASE rule = "reit" ->
              Result(Rule("Reit", <<<<ls>>>>), P(ls), indent, LAccess(L))
         [] rule = "#E" ->
              Result(Rule("#Elim", <<<<ls>>>>), other, indent, LAccess(L))
         [] rule = "#I" ->
              Result(Rule("#Intro", [i \in 1..Len(ls) |-> <<ls[i]>>]),
                     Atom("#"), indent, LAccess(L))
         [] rule = "~E" ->
              IF P(ls) = None \/ First(P(ls)) = None THEN Raise("AttributeError")
              ELSE Result(Rule("~Elim", <<<<ls>>>>), First(First(P(ls))),
                          indent, LAccess(L))
         [] rule = "~I" ->
              LET lo == Min2(ls[1], ls[2])
                  hi == Max2(ls[1], ls[2])
              IN IF P(lo) = None THEN Raise("AttributeError")
                 ELSE Result(Rule("~Intro", <<<<lo, hi>>>>), Negate(P(lo)),
                             indent - 1, LAccess(L) \div 10)
         [] rule = "&E" ->
              IF P(ls) = None THEN Raise("AttributeError")
              ELSE Result(Rule("&Elim", <<<<ls>>>>),
                          IF fl THEN First(P(ls)) ELSE Second(P(ls)),
                          indent, LAccess(L))
         [] rule = "&I" ->
              IF P(ls[1]) = None THEN Raise("AttributeError")
              ELSE Result(Rule("&Intro", << <<Min2(ls[1], ls[2])>>, <<Max2(ls[1], ls[2])>> >>),
                          IF P(ls[2]) = None THEN P(ls[1])
                          ELSE Join(P(ls[1]), P(ls[2]), "&"),
                          indent, LAccess(L))
         [] rule = "vE" ->
              Result(Rule("vElim", <<<<ls[1]>>>> \o SectionOrder(ls, 1, 2)),
                     P(ls[2][Len(ls[2])]), indent - 1, LAccess(L) \div 10)
         [] rule = "vI" ->
              IF (IF fl THEN P(ls) ELSE other) = None THEN Raise("AttributeError")
              ELSE Result(Rule("vIntro", <<<<ls>>>>),
                          IF ~fl THEN (IF P(ls) = None THEN other ELSE Join(other, P(ls), "v"))
                          ELSE (IF other = None THEN P(ls) ELSE Join(P(ls), other, "v")),
                          indent, LAccess(L))
         [] rule = ">E" ->
              IF P(ls[1]) = None THEN Raise("AttributeError")
              ELSE LET conditional == CondElimConditional(L, ls)
                   IN IF conditional = None THEN Raise("AttributeError")
                      ELSE Result(Rule(">Elim", << <<Min2(ls[1], ls[2])>>, <<Max2(ls[1], ls[2])>> >>),
                                  Second(conditional), indent, LAccess(L))
         [] rule = "-E" ->
              IF P(ls[1]) = None THEN Raise("AttributeError")
              ELSE LET conditional == IF Mc(P(ls[1])) = ">" THEN P(ls[1]) ELSE P(ls[2])
                   IN IF conditional = None THEN Raise("AttributeError")
                      ELSE Result(Rule("-Elim", << <<Min2(ls[1], ls[2])>>, <<Max2(ls[1], ls[2])>> >>),
                                  IF SentenceEq(First(conditional), P(ls[1]))
                                  THEN Second(conditional) ELSE First(conditional),
                                  indent, LAccess(L))
         [] rule = "-I" ->
              LET a == P(ls[1][1])
                  b == P(ls[1][Len(ls[1])])
              IN IF a = None THEN Raise("AttributeError")
                 ELSE Result(Rule("-Intro", SectionOrder(ls, 0, 1)),
                             IF b = None THEN a ELSE Join(a, b, "-"),
                             indent - 1, LAccess(L) \div 10)
         [] OTHER -> Raise("TypeError")

\* Proof.append: the ledger after the call; unchanged when Rule.apply raises
AppendRaises(L, rule, lines, other, fl) == Apply(rule, L, lines, other, fl).exc

AppendLedger(L, rule, lines, other, fl) ==
    LET r == Apply(rule, L, lines, other, fl)
    IN IF r.exc # "" THEN L
       ELSE AppendSentence(L, r.indent, r.new, r.rule, r.access)

(***************************************************************************)
(* Manual proof construction: a caller drives Proof.append.                *)
(*   lastOp  the rule of the last call ("pop" for Proof.pop)               *)
(*   prevOp  after a pop: the Proof.append it undoes, else "any"           *)
(*   snap    the ledger when the last Proof.append was entered             *)
(*   err     the exception the last call raised, "" when it returned       *)
(***************************************************************************)
P == Atom("P")
Q == Atom("Q")
R == Atom("R")

Others == {P}

NoReturn == [val |-> "none", entry |-> NewProof(<<>>)]

NoProver ==
    /\ stack = <<>>
    /\ flags = <<>>
    /\ ret = NoReturn
    /\ outcome = "idle"
    /\ goal = None

\* no Sentence is being constructed or compared
NoVerdict == [done |-> FALSE]

NoSentence ==
    /\ inText = <<>>
    /\ inText2 = <<>>
    /\ sentA = None
    /\ sentB = None
    /\ phase = "idle"
    /\ verdict = NoVerdict

InitLedger(prems) ==
    LET L == NewProof(prems)
    IN /\ theorems = L.theorems
       /\ rules = L.rules
       /\ indents = L.indents
       /\ accesses = L.accesses
       /\ premises = prems

SetLedger(L) ==
    /\ theorems' = L.theorems
    /\ rules' = L.rules
    /\ indents' = L.indents
    /\ accesses' = L.accesses

Snapshot == [ledger |-> Ledger, premises |-> premises]

Init ==
    /\ \E prems \in {<<>>, <<P>>} : InitLedger(prems)
    /\ lastOp = "init"
    /\ prevOp = "any"
    /\ snap = Snapshot
    /\ err = ""
    /\ NoProver
    /\ NoSentence

\* one call proof.append(rule, lines, other, fl)
DoAppend(rule, lines, other, fl) ==
    /\ LLen(Ledger) < MaxLines
    /\ SetLedger(AppendLedger(Ledger, rule, lines, other, fl))
    /\ err' = AppendRaises(Ledger, rule, lines, other, fl)
    /\ lastOp' = rule
    /\ snap' = Snapshot
    /\ UNCHANGED <<premises, prevOp, stack, flags, ret, outcome, goal>>
    /\ UNCHANGED sentenceVars

\* the caller's bookkeeping of where the open subproofs start: the last
\* Assume line at or before line n (line 1 when there is none)
AssumeAt(L, n) ==
    LET S == {k \in 1..n : L.rules[k].name = "Assume"}
    IN IF S = {} THEN 1 ELSE SetMax(S)

Assume == \E other \in Others, fl \in BOOLEAN : DoAppend("assume", 0, other, fl)

Reit == \E n \in {1, LLen(Ledger)} : n >= 1 /\ DoAppend("reit", n, None, TRUE)

NegIntro ==
    /\ LLen(Ledger) >= 1
    /\ DoAppend("~I", <<AssumeAt(Ledger, LLen(Ledger)), LLen(Ledger)>>, None, TRUE)

CondIntro ==
    /\ LLen(Ledger) >= 1
    /\ DoAppend(">I", <<AssumeAt(Ledger, LLen(Ledger)), LLen(Ledger)>>, None, TRUE)

OrElim ==
    LET c == AssumeAt(Ledger, LLen(Ledger))
    IN /\ c >= 2
       /\ DoAppend("vE", <<1, <<AssumeAt(Ledger, c - 1), c - 1>>, <<c, LLen(Ledger)>>>>,
                   None, TRUE)

BicondIntro ==
    LET c == AssumeAt(Ledger, LLen(Ledger))
    IN /\ c >= 2
       /\ DoAppend("-I", << <<AssumeAt(Ledger, c - 1), c - 1>>, <<c, LLen(Ledger)>> >>,
                   None, TRUE)

Next == Assume \/ Reit \/ NegIntro \/ CondIntro \/ OrElim \/ BicondIntro

Spec == Init /\ [][Next]_vars

(***************************************************************************)
(* Manual proof construction with every rule and Proof.pop, on short       *)
(* ledgers.                                                                *)
(***************************************************************************)
MaxRuleLines == 3

PremiseLists ==
    {<<Join(P, Q, ">"), P>>,
     <<Negate(Negate(P)), Join(P, Q, "&")>>,
     <<Join(P, Q, "-"), Q>>,
     <<Join(Join(P, Q, ">"), R, ">"), Join(P, Q, ">")>>}

InitRules ==
    /\ \E prems \in PremiseLists : InitLedger(prems)
    /\ lastOp = "init"
    /\ prevOp = "any"
    /\ snap = Snapshot
    /\ err = ""
    /\ NoProver
    /\ NoSentence

\* one call proof.append(rule, lines, other, fl), remembering the call before
CallAppend(rule, lines, other, fl) ==
    /\ LLen(Ledger) < MaxRuleLines
    /\ SetLedger(AppendLedger(Ledger, rule, lines, other, fl))
    /\ err' = AppendRaises(Ledger, rule, lines, other, fl)
    /\ lastOp' = rule
    /\ prevOp' = "any"
    /\ snap' = Snapshot
    /\ UNCHANGED <<premises, stack, flags, ret, outcome, goal>>
    /\ UNCHANGED sentenceVars

LineNumbers == 1..LLen(Ledger)

AppendAssume == \E other \in {P, Q}, fl \in BOOLEAN : CallAppend("assume", 0, other, fl)

AppendLineRule ==
    \E rule \in IntRules, n \in LineNumbers, other \in {Q}, fl \in BOOLEAN :
        CallAppend(rule, n, other, fl)

AppendPairRule ==
    \E rule \in {"#I", "~I", "&I", ">E", ">I", "-E"}, a, b \in LineNumbers, fl \in BOOLEAN :
        CallAppend(rule, <<a, b>>, None, fl)

AppendOrElim ==
    \E l, a, c \in LineNumbers, fl \in BOOLEAN :
        /\ a < c
        /\ CallAppend("vE", <<l, <<a, c - 1>>, <<c, LLen(Ledger)>>>>, None, fl)

AppendBicondIntro ==
    \E a, c \in LineNumbers, fl \in BOOLEAN :
        /\ a < c
        /\ CallAppend("-I", << <<a, c - 1>>, <<c, LLen(Ledger)>> >>, None, fl)

AppendOps == {"assume"} \cup IntRules \cup ListRules

\* one call proof.pop(), made by a caller that retracts only lines it appended
\* itself; prevOp names the Proof.append the pop directly follows, when that
\* call returned, and snap is kept only in that case
Pop ==
    LET after == IF PopRaises(Ledger) THEN Ledger ELSE PopLedger(Ledger)
        undo == lastOp \in AppendOps /\ err = ""
    IN /\ LLen(Ledger) > Len(premises)
       /\ SetLedger(after)
       /\ err' = IF PopRaises(Ledger) THEN "IndexError" ELSE ""
       /\ lastOp' = "pop"
       /\ prevOp' = IF undo THEN lastOp ELSE "any"
       /\ snap' = IF undo THEN snap ELSE [ledger |-> after, premises |-> premises]
       /\ UNCHANGED <<premises, stack, flags, ret, outcome, goal>>
       /\ UNCHANGED sentenceVars

NextRules ==
    AppendAssume \/ AppendLineRule \/ AppendPairRule \/ AppendOrElim
        \/ AppendBicondIntro \/ Pop

SpecRules == InitRules /\ [][NextRules]_vars

(***************************************************************************)
(* The Fitch structure of a ledger, read off its indentation and Assume    *)
(* lines.                                                                  *)
(***************************************************************************)
IsAssume(k) == rules[k].name = "Assume"

\* boxes are opened by Assume lines at depth >= 1 and closed only when
\* open; no depth holds more than nine boxes
WellFormedUse ==
    /\ \A k \in 1..Len(indents) : indents[k] >= 0 /\ (IsAssume(k) => indents[k] >= 1)
    /\ \A d \in 1..Len(indents) :
          Cardinality({k \in 1..Len(indents) : IsAssume(k) /\ indents[k] = d}) <= 9

\* the line that ends the box opened at Assume line k: the first later line
\* of lower depth, or the Assume of a sibling box; 0 while the box is open
BoxEnd(k) ==
    LET S == {j \in (k + 1)..Len(indents) :
                 \/ indents[j] < indents[k]
                 \/ (indents[j] = indents[k] /\ IsAssume(j))}
    IN IF S = {} THEN 0 ELSE CHOOSE j \in S : \A i \in S : j <= i

\* the last line before k that lies outside the box opened at k (0: none)
EnclosingLine(k) ==
    LET S == {j \in 1..(k - 1) : indents[j] < indents[k]}
    IN IF S = {} THEN 0 ELSE SetMax(S)

EnclosingCode(k) == IF EnclosingLine(k) = 0 THEN 1 ELSE accesses[EnclosingLine(k)]

\* the Assume line that opened the box enclosing the box of k (0: the main proof)
EnclosingStart(k) ==
    LET S == {i \in 1..EnclosingLine(k) : IsAssume(i) /\ indents[i] = indents[k] - 1}
    IN IF S = {} THEN 0 ELSE SetMax(S)

Ordinal(k) ==
    1 + Cardinality({i \in (EnclosingStart(k) + 1)..(k - 1) :
                        IsAssume(i) /\ indents[i] = indents[k]})

\* C1: no line inside a closed box is visible from a line after the box's
\* closing line, and lines of sibling boxes never see each other.
C1_ClosedBoxInvisible ==
    WellFormedUse =>
        \A k \in 1..Len(indents) :
            (IsAssume(k) /\ BoxEnd(k) # 0) =>
                \A l \in k..(BoxEnd(k) - 1) : \A m \in BoxEnd(k)..Len(indents) :
                    (m > BoxEnd(k) \/ IsAssume(m)) => ~CanAccess(Ledger, m, l)

\* C3: every Assume line's scope code is the enclosing box's code followed
\* by one digit, the 1-based ordinal of the new box inside that box.
C3_AssumeCode ==
    WellFormedUse =>
        \A k \in 1..Len(indents) :
            IsAssume(k) => accesses[k] = 10 * EnclosingCode(k) + Ordinal(k)

\* C4: a box-closing rule applied at depth d >= 1 with scope code c appends
\* exactly one line, of depth d - 1 and scope code c \div 10.
C4_ClosingAppends ==
    (lastOp \in ClosingRules /\ LIndent(snap.ledger) >= 1) =>
        /\ LLen(Ledger) = LLen(snap.ledger) + 1
        /\ LIndent(Ledger) = LIndent(snap.ledger) - 1
        /\ LAccess(Ledger) = LAccess(snap.ledger) \div 10

\* C5: Proof.pop right after a successful Proof.append restores theorems,
\* rules, indents, scope codes and the stored premise list.
C5_PopUndoesAppend ==
    (lastOp = "pop" /\ err = "" /\ prevOp \in AppendOps) =>
        Snapshot = snap

C5_Witness ==
    /\ lastOp = "pop" /\ err = "" /\ prevOp = "~I"
    /\ LLen(Ledger) = 2
    /\ Snapshot = snap

(***************************************************************************)
(* prove.py and Proof.prove: the automated prover, one step at a time.     *)
(*   goal     the conclusion handed to Proof.prove                          *)
(*   outcome  "start" before Proof.prove runs, "search" while prove runs,  *)
(*            then the status string returned or the exception raised       *)
(*   stack    the activations of prove, innermost last                      *)
(*   flags    the exclusion list shared by all activations                  *)
(*   ret      the value the last finished activation returned, with the     *)
(*            ledger that activation was entered with                       *)
(***************************************************************************)
NoGen == [acc |-> 0, n |-> 0, i |-> 0]

\* a generator proof.priors created now: accessible(self.line) over self.index
NewGen(L) == [acc |-> LLine(L), n |-> LLen(L), i |-> 0]

\* the next step of a generator of Proof.accessible, evaluated lazily on the
\* ledger as it is now
GenNext(L, g) ==
    LET cand == {i \in (g.i + 1)..g.n :
                    CanAccessRaises(L, g.acc, i) \/ CanAccess(L, g.acc, i)}
    IN IF cand = {} THEN [kind |-> "stop", i |-> g.n]
       ELSE LET i == CHOOSE x \in cand : \A y \in cand : x <= y
            IN IF CanAccessRaises(L, g.acc, i) THEN [kind |-> "raise", i |-> i]
               ELSE [kind |-> "yield", i |-> i]

Frame(conclusion, indent, L) ==
    [conclusion |-> conclusion, indent |-> indent, pc |-> "check",
     gen |-> NoGen, theorem |-> None, line |-> 0,
     igen |-> NoGen, ant_line |-> 0,
     d1s |-> 0, d1e |-> 0, d2s |-> 0, d2e |-> 0,
     entry |-> L]

Top == stack[Len(stack)]

\* str() of the tuple (sentence, line) that Proof.accessible yields
StrTuple(t, i) == <<"(">> \o Str(t) \o <<",", " ">> \o DecStr(i) \o <<")">>

\* conclusion in [prior[0] for prior in proof.priors]
InPriorSentences(L, s) ==
    \E i \in Range(Priors(L)) : SentenceEq(s, GetItem(L, i))

\* sentence in proof.priors: the sentence is compared with the yielded tuples
InPriors(L, s) ==
    \E i \in Range(Priors(L)) : Str(s) = StrTuple(GetItem(L, i), i)

\* ['pbc', theorem] in flags
Flagged(fs, theorem) ==
    \E k \in 1..Len(fs) : fs[k][1] = "pbc" /\ SentenceEq(theorem, fs[k][2])

DropLast(seq) == SubSeq(seq, 1, Len(seq) - 1)

\* while proof.indent == indent: proof.pop()
RECURSIVE PopWhile(_, _)
PopWhile(L, indent) ==
    IF LIndent(L) # indent THEN [exc |-> "", ledger |-> L]
    ELSE IF PopRaises(L) THEN [exc |-> "IndexError", ledger |-> L]
    ELSE PopWhile(PopLedger(L), indent)

Scenarios ==
    {[premises |-> <<Join(P, Q, "v"), Join(P, R, ">"), Join(Q, R, ">")>>, goal |-> R],
     [premises |-> <<>>, goal |-> Join(P, Negate(P), "v")],
     [premises |-> <<>>, goal |-> P],
     [premises |-> <<P>>, goal |-> Q],
     [premises |-> <<P>>, goal |-> P],
     [premises |-> <<P>>, goal |-> Join(P, P, ">")],
     [premises |-> <<Join(P, Q, "v")>>, goal |-> P],
     [premises |-> <<Join(P, Q, "v"), R>>, goal |-> P],
     [premises |-> <<P, Join(P, Q, ">")>>, goal |-> Q],
     [premises |-> <<P, Join(P, Q, ">"), Join(Q, R, ">")>>, goal |-> R],
     [premises |-> <<Join(Q, R, ">"), Join(P, Q, ">"), P>>, goal |-> R],
     [premises |-> <<Join(P, Q, "v"), Join(P, R, ">")>>, goal |-> R],
     [premises |-> <<Join(P, Join(Q, Negate(Q), "v"), "&")>>, goal |-> P],
     [premises |-> <<P, Join(Q, Negate(Q), "v")>>, goal |-> P]}

InitProve ==
    /\ \E sc \in Scenarios : InitLedger(sc.premises) /\ goal = sc.goal
    /\ lastOp = "init"
    /\ prevOp = "any"
    /\ snap = Snapshot
    /\ err = ""
    /\ stack = <<>>
    /\ flags = <<>>
    /\ ret = NoReturn
    /\ outcome = "start"
    /\ NoSentence

KeepManual ==
    /\ UNCHANGED <<premises, lastOp, prevOp, snap, err, goal>>
    /\ UNCHANGED sentenceVars

\* an exception leaves prove and Proof.prove; the ledger stays as it is
RaiseFrom(exc, L) ==
    /\ outcome' = exc
    /\ SetLedger(L)
    /\ UNCHANGED <<stack, ret>>

\* a return that reports every finished search as a success
ReturnProved(v) ==
    /\ stack' = DropLast(stack)
    /\ ret' = [val |-> IF v THEN "true" ELSE "false", entry |-> Top.entry]
    /\ outcome' = IF Len(stack) > 1 THEN outcome ELSE "Proved."

\* the running activation returns v
Return(v) ==
    /\ stack' = DropLast(stack)
    /\ ret' = [val |-> IF v THEN "true" ELSE "false", entry |-> Top.entry]
    /\ outcome' = IF Len(stack) > 1 THEN outcome
                  ELSE IF v THEN "Proved." ELSE "Failed to prove."

\* the running activation, updated to fr, calls prove(conclusion, proof, indent,
\* flags) on ledger L
Call(fr, conclusion, indent, L) ==
    IF Len(stack) >= MaxDepth
    THEN /\ outcome' = "RecursionError"
         /\ stack' = [stack EXCEPT ![Len(stack)] = fr]
         /\ ret' = NoReturn
    ELSE /\ outcome' = outcome
         /\ stack' = Append([stack EXCEPT ![Len(stack)] = fr], Frame(conclusion, indent, L))
         /\ ret' = NoReturn

Goto(fr) ==
    /\ stack' = [stack EXCEPT ![Len(stack)] = fr]
    /\ ret' = NoReturn
    /\ outcome' = outcome

Running(pc) == outcome = "search" /\ stack # <<>> /\ Top.pc = pc

\* Proof.prove up to the call of prove
ProveEntry ==
    /\ outcome = "start"
    /\ KeepManual
    /\ UNCHANGED <<theorems, rules, indents, accesses, flags, ret>>
    /\ IF Len(premises) = 0 /\ ~Taut(goal, TRUE)
       THEN outcome' = "Not provable." /\ stack' = stack
       ELSE IF Connect(premises, "&") = None
       THEN outcome' = "AttributeError" /\ stack' = stack
       ELSE IF TfLt(Connect(premises, "&"), goal)
       THEN outcome' = "Not provable from given premises." /\ stack' = stack
       ELSE outcome' = "search" /\ stack' = <<Frame(goal, 0, Ledger)>>

\* prove.py lines 6-7
SuccessCheck ==
    /\ Running("check")
    /\ KeepManual
    /\ UNCHANGED <<theorems, rules, indents, accesses, flags>>
    /\ IF InPriorSentences(Ledger, Top.conclusion) /\ LIndent(Ledger) = Top.indent
       THEN Return(TRUE)
       ELSE Goto([Top EXCEPT !.pc = "goal"])

\* prove.py lines 9-20: a conditional goal opens a box and calls prove with two
\* arguments; any other goal starts the loop over proof.priors
GoalStep ==
    /\ Running("goal")
    /\ KeepManual
    /\ flags' = flags
    /\ IF Mc(Top.conclusion) = ">"
       THEN IF AppendRaises(Ledger, "assume", 0, First(Top.conclusion), TRUE) # ""
            THEN RaiseFrom(AppendRaises(Ledger, "assume", 0, First(Top.conclusion), TRUE), Ledger)
            ELSE RaiseFrom("TypeError",
                           AppendLedger(Ledger, "assume", 0, First(Top.conclusion), TRUE))
       ELSE /\ Goto([Top EXCEPT !.pc = "outer", !.gen = NewGen(Ledger)])
            /\ UNCHANGED <<theorems, rules, indents, accesses>>

\* prove.py line 20: the next visible line, or line 54 when there is none
OuterNext ==
    /\ Running("outer")
    /\ KeepManual
    /\ flags' = flags
    /\ LET nx == GenNext(Ledger, Top.gen)
       IN IF nx.kind = "raise" THEN RaiseFrom("IndexError", Ledger)
          ELSE /\ UNCHANGED <<theorems, rules, indents, accesses>>
               /\ IF nx.kind = "stop" THEN Return(FALSE)
                  ELSE Goto([Top EXCEPT !.pc = "match", !.gen.i = nx.i,
                                        !.theorem = GetItem(Ledger, nx.i),
                                        !.line = nx.i])

\* prove.py lines 22-28
DisjunctionSplit ==
    /\ Running("match")
    /\ Mc(Top.theorem) = "v"
    /\ KeepManual
    /\ IF Flagged(flags, Top.theorem)
       THEN /\ Goto([Top EXCEPT !.pc = "outer"])
            /\ UNCHANGED <<theorems, rules, indents, accesses, flags>>
       ELSE LET exc == AppendRaises(Ledger, "assume", 0, First(Top.theorem), TRUE)
                L2 == AppendLedger(Ledger, "assume", 0, First(Top.theorem), TRUE)
            IN /\ flags' = Append(flags, <<"pbc", Top.theorem>>)
               /\ IF exc # "" THEN RaiseFrom(exc, Ledger)
                  ELSE /\ SetLedger(L2)
                       /\ Call([Top EXCEPT !.pc = "v1", !.d1s = LLine(L2)],
                               Top.conclusion, Top.indent + 1, L2)

\* prove.py lines 28-35: back from the first case
AfterFirstCase ==
    /\ Running("v1")
    /\ ret.val # "none"
    /\ KeepManual
    /\ IF ret.val = "false"
       THEN IF flags = <<>> \/ PopRaises(Ledger)
            THEN RaiseFrom("IndexError", Ledger) /\ flags' = flags
            ELSE /\ flags' = DropLast(flags)
                 /\ SetLedger(PopLedger(Ledger))
                 /\ Goto([Top EXCEPT !.pc = "outer"])
       ELSE LET exc == AppendRaises(Ledger, "assume", 0, Second(Top.theorem), FALSE)
                L2 == AppendLedger(Ledger, "assume", 0, Second(Top.theorem), FALSE)
            IN /\ flags' = flags
               /\ IF exc # "" THEN RaiseFrom(exc, Ledger)
                  ELSE /\ SetLedger(L2)
                       /\ Call([Top EXCEPT !.pc = "v2", !.d1e = LLine(Ledger),
                                           !.d2s = LLine(L2)],
                               Top.conclusion, Top.indent + 1, L2)

\* prove.py lines 35-44: back from the second case
AfterSecondCase ==
    /\ Running("v2")
    /\ ret.val # "none"
    /\ KeepManual
    /\ IF ret.val = "false"
       THEN IF flags = <<>> \/ PopRaises(Ledger)
            THEN RaiseFrom("IndexError", Ledger) /\ flags' = flags
            ELSE LET w == PopWhile(PopLedger(Ledger), Top.indent)
                 IN /\ flags' = DropLast(flags)
                    /\ IF w.exc # "" THEN RaiseFrom(w.exc, w.ledger)
                       ELSE /\ SetLedger(w.ledger)
                            /\ Goto([Top EXCEPT !.pc = "outer"])
       ELSE LET lines == <<Top.line, <<Top.d1s, Top.d1e>>, <<Top.d2s, LLine(Ledger)>>>>
                exc == AppendRaises(Ledger, "vE", lines, None, TRUE)
                L2 == AppendLedger(Ledger, "vE", lines, None, TRUE)
            IN IF exc # "" THEN RaiseFrom(exc, Ledger) /\ flags' = flags
               ELSE IF flags = <<>> THEN RaiseFrom("IndexError", L2) /\ flags' = flags
               ELSE /\ flags' = DropLast(flags)
                    /\ SetLedger(L2)
                    /\ Call([Top EXCEPT !.pc = "v3", !.d2e = LLine(Ledger)],
                            Top.conclusion, Top.indent, L2)

\* prove.py lines 44-46: back from the attempt after the disjunction-elimination
AfterOrElim ==
    /\ Running("v3")
    /\ ret.val # "none"
    /\ KeepManual
    /\ UNCHANGED <<theorems, rules, indents, accesses, flags>>
    /\ IF ret.val = "true" THEN Return(TRUE)
       ELSE Goto([Top EXCEPT !.pc = "outer"])

\* prove.py lines 47-48: a visible conditional starts the loop over antecedents
ConditionalStart ==
    /\ Running("match")
    /\ Mc(Top.theorem) = ">"
    /\ KeepManual
    /\ UNCHANGED <<theorems, rules, indents, accesses, flags>>
    /\ Goto([Top EXCEPT !.pc = "inner", !.igen = NewGen(Ledger)])

\* prove.py line 21: a visible line that is neither a disjunction nor a conditional
SkipLine ==
    /\ Running("match")
    /\ Mc(Top.theorem) \notin {"v", ">"}
    /\ KeepManual
    /\ UNCHANGED <<theorems, rules, indents, accesses, flags>>
    /\ Goto([Top EXCEPT !.pc = "outer"])

\* prove.py lines 48-51: the next candidate antecedent
InnerNext ==
    /\ Running("inner")
    /\ KeepManual
    /\ flags' = flags
    /\ LET nx == GenNext(Ledger, Top.igen)
       IN IF nx.kind = "raise" THEN RaiseFrom("IndexError", Ledger)
          ELSE IF nx.kind = "stop"
          THEN /\ Goto([Top EXCEPT !.pc = "outer"])
               /\ UNCHANGED <<theorems, rules, indents, accesses>>
          ELSE IF SentenceEq(GetItem(Ledger, nx.i), First(Top.theorem))
                  /\ ~InPriors(Ledger, Second(Top.theorem))
          THEN LET lines == <<nx.i, Top.line>>
                   exc == AppendRaises(Ledger, ">E", lines, None, TRUE)
                   L2 == AppendLedger(Ledger, ">E", lines, None, TRUE)
               IN IF exc # "" THEN RaiseFrom(exc, Ledger)
                  ELSE /\ SetLedger(L2)
                       /\ Call([Top EXCEPT !.pc = "e1", !.igen.i = nx.i, !.ant_line = nx.i],
                               Top.conclusion, Top.indent, L2)
          ELSE /\ Goto([Top EXCEPT !.igen.i = nx.i, !.ant_line = nx.i])
               /\ UNCHANGED <<theorems, rules, indents, accesses>>

\* prove.py lines 51-53: back from the attempt after the conditional-elimination
AfterCondElim ==
    /\ Running("e1")
    /\ ret.val # "none"
    /\ KeepManual
    /\ UNCHANGED <<theorems, rules, indents, accesses, flags>>
    /\ IF ret.val = "true" THEN Return(TRUE)
       ELSE Goto([Top EXCEPT !.pc = "inner"])

NextProve ==
    ProveEntry \/ SuccessCheck \/ GoalStep \/ OuterNext \/ DisjunctionSplit
        \/ AfterFirstCase \/ AfterSecondCase \/ AfterOrElim \/ ConditionalStart
        \/ SkipLine \/ InnerNext \/ AfterCondElim

SpecProve == InitProve /\ [][NextProve]_vars

(***************************************************************************)
(* Claims about the prover.                                                *)
(***************************************************************************)
StatusStrings ==
    {"Proved.", "Failed to prove.", "Not provable.", "Not provable from given premises."}

\* Proof.prove has returned or raised
Done == outcome \notin {"start", "search"}

\* every assignment over the atomics of premises and goal that satisfies all
\* premises satisfies the goal
Entails(prems, g) ==
    LET names == UNION {Range(Atomics(prems[i])) : i \in 1..Len(prems)}
                     \cup Range(Atomics(g))
    IN \A vals \in [names -> BOOLEAN] :
           (\A i \in 1..Len(prems) : SymbolCall(prems[i], vals)) => SymbolCall(g, vals)

RECURSIVE ConnectiveCount(_)
ConnectiveCount(s) ==
    IF s.kids = <<>> THEN 0
    ELSE IF s.symb = "~" THEN 1 + ConnectiveCount(s.kids[1])
    ELSE 1 + ConnectiveCount(s.kids[1]) + ConnectiveCount(s.kids[2])

RECURSIVE SumConnectives(_)
SumConnectives(ss) ==
    IF ss = <<>> THEN 0 ELSE ConnectiveCount(Head(ss)) + SumConnectives(Tail(ss))

\* the nesting available to the search: one level per connective of the goal
\* and of the premises, and the outermost call
NestingBound == 1 + ConnectiveCount(goal) + SumConnectives(premises)

Scenario1Premises == <<Join(P, Q, "v"), Join(P, R, ">"), Join(Q, R, ">")>>

\* C2: when a call of prove returns failure the ledger is as it was when that
\* call was entered, so after 'Failed to prove.' the ledger holds exactly the
\* premise lines.
C2_FailureRestoresLedger ==
    /\ ret.val = "false" => Ledger = ret.entry
    /\ outcome = "Failed to prove." => Ledger = NewProof(premises)

\* C6: from the premises PvQ, P>R, Q>R the goal R is reported 'Proved.' and
\* the last line of the ledger is R.
C6_Scenario1Proved ==
    (premises = Scenario1Premises /\ goal = R /\ Done) =>
        /\ outcome = "Proved."
        /\ SentenceEq(theorems[Len(theorems)], R)

C6_Witness ==
    /\ premises = Scenario1Premises /\ goal = R
    /\ outcome = "Proved."
    /\ Len(theorems) > Len(premises)
    /\ rules[Len(rules)].name = "vElim"

\* C7: with no premises a tautologous goal gets a status string, and the goal
\* Pv~P gets 'Proved.'.
C7_EmptyPremisesTautology ==
    (Len(premises) = 0 /\ Taut(goal, TRUE) /\ Done) =>
        /\ outcome \in StatusStrings
        /\ goal = Join(P, Negate(P), "v") => outcome = "Proved."

\* C8: a goal the premises do not entail is answered 'Not provable from given
\* premises.' with the ledger untouched.
C8_NotEntailedRejected ==
    (Len(premises) >= 1 /\ ~Entails(premises, goal) /\ Done) =>
        /\ outcome = "Not provable from given premises."
        /\ Ledger = NewProof(premises)

\* C9: Proof.prove ends with one of the four status strings, never with an
\* exception.
C9_StatusNeverException == Done => outcome \in StatusStrings

\* C10: the recursion of prove stays within the nesting of goal and premises
\* and the search never runs out of stack; in particular it ends for the
\* premises P, P>Q, Q>R and the goal R.
C10_BoundedRecursion ==
    /\ Len(stack) <= NestingBound
    /\ outcome # "RecursionError"

(***************************************************************************)
(* Sentences constructed from text: Sentence(text), then the canonical     *)
(* text of the result (its formula, or str() of it) constructed again.     *)
(***************************************************************************)
MaxText == 4
MaxChain == 4

Alphabet == {"P", "Q", "(", ")", "~", "v", "&"}

\* every text of at most n characters over the set A
RECURSIVE TextsOver(_, _)
TextsOver(A, n) ==
    IF n = 0 THEN {<<>>}
    ELSE LET shorter == TextsOver(A, n - 1)
         IN shorter \cup {Append(t, c) : t \in {x \in shorter : Len(x) = n - 1}, c \in A}

Letters == <<"P", "Q", "R", "S", "T", "U", "A", "B">>
ChainConnectives == {"v", ">"}

\* the unparenthesized chain ops[1] conns[1] ops[2] ... conns[k] ops[k+1]
RECURSIVE ChainText(_, _)
ChainText(ops, conns) ==
    IF conns = <<>> THEN <<ops[1]>>
    ELSE <<ops[1], conns[1]>> \o ChainText(Tail(ops), Tail(conns))

ChainsOf(k) ==
    {[ops |-> SubSeq(Letters, 1, k + 1), conns |-> cs] :
        cs \in [1..k -> ChainConnectives]}

Chains == UNION {ChainsOf(k) : k \in 1..MaxChain}

\* texts like those of test2.py and hw1.py: nested groups, brackets, spaces,
\* every connective, and texts that are no formula
CoveringTexts ==
    {<<"P", "v", "(", "Q", "v", "(", "R", "v", "S", ")", ")">>,
     <<"P", ">", "(", "Q", ">", "R", ")">>,
     <<"(", "P", ">", "Q", ")", ">", "R">>,
     <<"~", "(", "R", "-", "(", "~", "S", "v", "T", ")", ")">>,
     <<"(", "~", "P", "&", "~", "Q", ")", ">", "~", "R">>,
     <<"[", "P", "v", "Q", "]", "&", "R">>,
     <<"P", " ", "^", " ", "#">>,
     <<"~", "P", "v", "Q", "&", "R">>,
     <<"#">>,
     <<"Q", ">", "#">>,
     <<"P", "&", "~", "P">>,
     <<"Q", "&", "~", "Q">>,
     <<"P", "v", "~", "P">>,
     <<"P", "&", "(", "Q", "v", "~", "Q", ")">>,
     <<"A", "P", "B">>,
     <<")", "P", "v", "Q", "(">>,
     <<"P", "v">>}

Texts ==
    TextsOver(Alphabet, MaxText) \cup CoveringTexts
        \cup {ChainText(ch.ops, ch.conns) : ch \in Chains}

InitParse ==
    /\ InitLedger(<<>>)
    /\ lastOp = "init"
    /\ prevOp = "any"
    /\ snap = Snapshot
    /\ err = ""
    /\ NoProver
    /\ inText \in Texts
    /\ inText2 = <<>>
    /\ sentA = None
    /\ sentB = None
    /\ phase = "text"
    /\ verdict = NoVerdict

KeepProof == UNCHANGED <<ledgerVars, manualVars, proverVars>>

\* sentA = Sentence(inText)
Construct ==
    /\ phase = "text"
    /\ sentA' = SentenceOf(inText)
    /\ phase' = "built"
    /\ UNCHANGED <<inText, inText2, sentB, verdict>>
    /\ KeepProof

\* sentB = Sentence(sentA.formula)
Reconstruct ==
    /\ phase = "built"
    /\ ~IsRaised(sentA)
    /\ inText2' = sentA.formula
    /\ sentB' = SentenceOf(sentA.formula)
    /\ phase' = "again"
    /\ UNCHANGED <<inText, sentA, verdict>>
    /\ KeepProof

\* sentB = Sentence(str(sentA))
ReconstructStr ==
    /\ phase = "built"
    /\ ~IsRaised(sentA)
    /\ inText2' = Str(sentA)
    /\ sentB' = SentenceOf(Str(sentA))
    /\ phase' = "againStr"
    /\ UNCHANGED <<inText, sentA, verdict>>
    /\ KeepProof

NextParse == Construct \/ Reconstruct \/ ReconstructStr

SpecParse == InitParse /\ [][NextParse]_vars

(***************************************************************************)
(* The grammar of formula texts: a chain of units joined by binary         *)
(* connectives; a unit is an atomic letter, the constant, a negated unit   *)
(* or a chain in parentheses.                                              *)
(***************************************************************************)
AtomicLetters == Range(AtomicOrder)

RECURSIVE IsUnit(_), IsChain(_)
IsUnit(t) ==
    \/ Len(t) = 1 /\ t[1] \in AtomicLetters \cup {"#"}
    \/ Len(t) > 1 /\ t[1] = "~" /\ IsUnit(Tail(t))
    \/ Len(t) > 2 /\ t[1] = "(" /\ t[Len(t)] = ")" /\ IsChain(SubSeq(t, 2, Len(t) - 1))

IsChain(t) ==
    \/ IsUnit(t)
    \/ \E i \in 2..(Len(t) - 1) :
          /\ t[i] \in Range(BINARIES)
          /\ IsUnit(SubSeq(t, 1, i - 1))
          /\ IsChain(SubSeq(t, i + 1, Len(t)))

WellFormed(text) == IsChain(Normalise(text))

\* the tree of a Symbol without its formula texts
RECURSIVE Shape(_)
Shape(s) ==
    IF s.kids = <<>> THEN <<s.symb>>
    ELSE <<s.symb, Shape(s.kids[1]), Shape(s.kids[2])>>

\* C13: for every well-formed text, the canonical text of its parse (the
\* formula of the Sentence, or str() of it) is constructed again into a
\* Sentence that has the same canonical text and the same tree.
C13_RoundTrip ==
    (phase \in {"again", "againStr"} /\ WellFormed(inText)) =>
        /\ ~IsRaised(sentB)
        /\ Shape(sentB) = Shape(sentA)
        /\ phase = "again" => sentB.formula = inText2
        /\ phase = "againStr" => Str(sentB) = inText2

\* the balanced grouping of a chain: the left group takes floor((k+1)/2)
\* operands, the connective after it is the main connective
RECURSIVE Grouped(_, _)
Grouped(ops, conns) ==
    IF Len(ops) = 1 THEN <<ops[1]>>
    ELSE LET n == Len(ops) \div 2
         IN <<conns[n],
              Grouped(SubSeq(ops, 1, n), SubSeq(conns, 1, n - 1)),
              Grouped(SubSeq(ops, n + 1, Len(ops)), SubSeq(conns, n + 1, Len(conns)))>>

\* C14: a chain of k+1 operands parses to the balanced grouping; PvQvR is
\* Pv(QvR) and PvQvRvS is (PvQ)v(RvS).
C14_BalancedGrouping ==
    phase = "built" =>
        /\ \A ch \in Chains :
              inText = ChainText(ch.ops, ch.conns) =>
                  /\ ~IsRaised(sentA)
                  /\ Shape(sentA) = Grouped(ch.ops, ch.conns)
        /\ inText = <<"P", "v", "Q", "v", "R">> =>
              Shape(sentA) = <<"v", <<"P">>, <<"v", <<"Q">>, <<"R">>>>>>
        /\ inText = <<"P", "v", "Q", "v", "R", "v", "S">> =>
              Shape(sentA) = <<"v", <<"v", <<"P">>, <<"Q">>>>, <<"v", <<"R">>, <<"S">>>>>>

C14_Witness ==
    /\ phase = "built"
    /\ inText = <<"P", "v", "Q", "v", "R", "v", "S">>
    /\ sentA.symb = "v"
    /\ sentA.kids[1].formula = <<"P", "v", "Q">>
    /\ sentA.kids[2].formula = <<"R", "v", "S">>

\* C16: a text that is no well-formed formula never becomes a Sentence.
C16_MalformedRejected ==
    (phase = "built" /\ ~WellFormed(inText)) => IsRaised(sentA)

(***************************************************************************)
(* Two Sentences constructed from text and compared: the entailment order  *)
(* of their truth functions, equivalent() and deep_equal().                *)
(***************************************************************************)
MaxFormula == 3

FormulaAlphabet == {"P", "Q", "~", "v", "&"}

\* the texts that construct a Sentence
Formulas ==
    {t \in TextsOver(FormulaAlphabet, MaxFormula) \cup CoveringTexts :
        Len(t) > 0 /\ ~IsRaised(SentenceOf(t))}

InitCompare ==
    /\ InitLedger(<<>>)
    /\ lastOp = "init"
    /\ prevOp = "any"
    /\ snap = Snapshot
    /\ err = ""
    /\ NoProver
    /\ inText \in Formulas
    /\ inText2 \in Formulas
    /\ sentA = None
    /\ sentB = None
    /\ phase = "pair"
    /\ verdict = NoVerdict

\* sentA = Sentence(inText); sentB = Sentence(inText2)
ConstructPair ==
    /\ phase = "pair"
    /\ sentA' = SentenceOf(inText)
    /\ sentB' = SentenceOf(inText2)
    /\ phase' = "sentences"
    /\ UNCHANGED <<inText, inText2, verdict>>
    /\ KeepProof

\* a.tf >= b.tf, b.tf >= a.tf, a.tf > b.tf, a.tf == b.tf, a.equivalent(b),
\* a.deep_equal(b), b.deep_equal(a)
Compare ==
    /\ phase = "sentences"
    /\ verdict' = [done |-> TRUE,
                   ge |-> TfGe(sentA, sentB),
                   geBack |-> TfGe(sentB, sentA),
                   gt |-> TfGt(sentA, sentB),
                   eq |-> TfEq(sentA, sentB),
                   equivalent |-> Equivalent(sentA, sentB),
                   deep |-> DeepEqual(sentA, sentB),
                   deepBack |-> DeepEqual(sentB, sentA)]
    /\ phase' = "compared"
    /\ UNCHANGED <<inText, inText2, sentA, sentB>>
    /\ KeepProof

NextCompare == ConstructPair \/ Compare

SpecCompare == InitCompare /\ [][NextCompare]_vars

\* C11: a.tf >= b.tf and b.tf >= a.tf both hold exactly when
\* a.equivalent(b) holds.
C11_Antisymmetry ==
    phase = "compared" =>
        ((verdict.ge /\ verdict.geBack) <=> verdict.equivalent)

\* C12: a.tf >= b.tf holds exactly when every assignment over the atomics of
\* both that satisfies a satisfies b, and a.tf > b.tf exactly when that is so
\* and a.tf != b.tf.
C12_EntailmentReference ==
    phase = "compared" =>
        /\ verdict.ge <=> Entails(<<sentA>>, sentB)
        /\ verdict.gt <=> (Entails(<<sentA>>, sentB) /\ ~verdict.eq)

C12_Witness ==
    /\ phase = "compared"
    /\ inText = <<"P", "&", "~", "P">>
    /\ inText2 = <<"Q">>
    /\ verdict.gt
    /\ ~verdict.geBack

\* the trees match up to swapping the operands of connective nodes
RECURSIVE Commutes(_, _)
Commutes(s, t) ==
    /\ s.symb = t.symb
    /\ (s.kids = <<>>) = (t.kids = <<>>)
    /\ s.kids # <<>> =>
          \/ Commutes(s.kids[1], t.kids[1]) /\ Commutes(s.kids[2], t.kids[2])
          \/ Commutes(s.kids[1], t.kids[2]) /\ Commutes(s.kids[2], t.kids[1])

\* C15: a.deep_equal(b) holds exactly when the tree of a becomes the tree of
\* b by swapping operands of connective nodes; deep_equal is symmetric.
C15_DeepEqual ==
    phase = "compared" =>
        /\ verdict.deep <=> Commutes(sentA, sentB)
        /\ verdict.deep <=> verdict.deepBack

\* C17: a call of prove whose goal is a conditional A > B that is not already
\* visible appends the assumption A one level deeper and calls prove for B at
\* that deeper level (and then closes the box with '>I' or removes the
\* assumption).
C17_GoalDecomposition ==
    [][(Running("goal") /\ Mc(Top.conclusion) = ">") =>
          /\ LLen(Ledger') = LLen(Ledger) + 1
          /\ SentenceEq(theorems'[Len(theorems')], First(Top.conclusion))
          /\ indents'[Len(indents')] = Top.indent + 1
          /\ outcome' = "search"
          /\ Len(stack') = Len(stack) + 1
          /\ SentenceEq(stack'[Len(stack')].conclusion, Second(Top.conclusion))
          /\ stack'[Len(stack')].indent = Top.indent + 1]_vars

\* C18: the prover appends a '>E' line for a visible conditional A > B only
\* when A is visible and B is not visible from the current last line.
C18_CondElimGuard ==
    [][(Running("inner") /\ LLen(Ledger') > LLen(Ledger)) =>
          /\ rules'[Len(rules')].name = ">Elim"
          /\ InPriorSentences(Ledger, First(Top.theorem))
          /\ ~InPriorSentences(Ledger, Second(Top.theorem))
          /\ ~InPriorSentences(Ledger, theorems'[Len(theorems')])]_vars

\* box-closing rules were applied only at depth >= 1 and no depth holds more
\* than nine Assume lines
ClosedOnlyInside ==
    /\ \A k \in 1..Len(indents) : indents[k] >= 0
    /\ \A d \in 0..Len(indents) :
          Cardinality({k \in 1..Len(indents) : IsAssume(k) /\ indents[k] = d}) <= 9

\* C19 as stated: in every ledger reached by Proof.append calls that close
\* boxes only at depth >= 1 and open at most nine boxes per depth, every
\* scope code is a positive integer with (depth + 1) decimal digits, and
\* every premise line has depth 0 and scope code 1.
C19_AsStated ==
    ClosedOnlyInside =>
        /\ \A k \in 1..Len(accesses) :
              accesses[k] > 0 /\ Len(DecStr(accesses[k])) = indents[k] + 1
        /\ \A k \in 1..Len(premises) :
              rules[k].name = "Premise" /\ indents[k] = 0 /\ accesses[k] = 1

\* C19 amended: the same, when in addition every Assume line lies at depth
\* >= 1 (a same-level assumption is appended only inside an open box).
C19_DepthCodeInvariant ==
    WellFormedUse =>
        /\ \A k \in 1..Len(accesses) :
              accesses[k] > 0 /\ Len(DecStr(accesses[k])) = indents[k] + 1
        /\ \A k \in 1..Len(premises) :
              rules[k].name = "Premise" /\ indents[k] = 0 /\ accesses[k] = 1

C19_Witness ==
    /\ WellFormedUse
    /\ premises # <<>>
    /\ lastOp \in ClosingRules
    /\ err = ""
    /\ LIndent(Ledger) = 0
    /\ \E k \in 1..Len(indents) : indents[k] = 2 /\ accesses[k] = 111
    /\ \E k \in 1..Len(indents) : accesses[k] = 12

\* C20: for two cited lines holding A and A > B, Rule.apply('>E') yields B at
\* the current depth and scope code, in either citation order and for either
\* order-flag; the call changes no existing line of the ledger.
C20_CondElim ==
    /\ \A a, b \in 1..LLen(Ledger), fl \in BOOLEAN :
          (Mc(theorems[b]) = ">" /\ SentenceEq(First(theorems[b]), theorems[a])) =>
              \A lines \in {<<a, b>>, <<b, a>>} :
                  LET r == Apply(">E", Ledger, lines, None, fl)
                  IN /\ r.exc = ""
                     /\ SentenceEq(r.new, Second(theorems[b]))
                     /\ r.indent = LIndent(Ledger)
                     /\ r.access = LAccess(Ledger)
    /\ (lastOp = ">E" /\ err = "") =>
          /\ LLen(Ledger) = LLen(snap.ledger) + 1
          /\ SubSeq(theorems, 1, Len(theorems) - 1) = snap.ledger.theorems
          /\ SubSeq(rules, 1, Len(rules) - 1) = snap.ledger.rules
          /\ SubSeq(indents, 1, Len(indents) - 1) = snap.ledger.indents
          /\ SubSeq(accesses, 1, Len(accesses) - 1) = snap.ledger.accesses
          /\ premises = snap.premises

C20_Witness ==
    /\ lastOp = ">E"
    /\ err = ""
    /\ premises = <<Join(Join(P, Q, ">"), R, ">"), Join(P, Q, ">")>>
    /\ LLen(Ledger) = 3
    /\ SentenceEq(theorems[3], R)
    /\ rules[3].name = ">Elim"

\* C21: for two cited lines holding A - B and one of its sides,
\* Rule.apply('-E') yields the other side (B when A is cited, A when B is
\* cited) at the current depth and scope code, in either citation order and
\* for either order-flag.
C21_BicondElim ==
    \A a, b \in 1..LLen(Ledger), fl \in BOOLEAN :
        (/\ Mc(theorems[b]) = "-"
         /\ \/ SentenceEq(First(theorems[b]), theorems[a])
            \/ SentenceEq(Second(theorems[b]), theorems[a])) =>
            \A lines \in {<<a, b>>, <<b, a>>} :
                LET r == Apply("-E", Ledger, lines, None, fl)
                IN /\ r.exc = ""
                   /\ r.new # None
                   /\ \/ /\ SentenceEq(First(theorems[b]), theorems[a])
                         /\ SentenceEq(r.new, Second(theorems[b]))
                      \/ /\ SentenceEq(Second(theorems[b]), theorems[a])
                         /\ SentenceEq(r.new, First(theorems[b]))
                   /\ r.indent = LIndent(Ledger)
                   /\ r.access = LAccess(Ledger)

\* C22: whenever Proof.prove returns 'Proved.', the last line of the ledger
\* has indentation 0 and a formula structurally equal to the goal is among the
\* lines visible from that last line.
C22_SuccessPostcondition ==
    outcome = "Proved." =>
        /\ Len(theorems) >= 1
        /\ indents[Len(indents)] = 0
        /\ \E k \in Range(Priors(Ledger)) : Str(theorems[k]) = Str(goal)

C22_Witness ==
    /\ outcome = "Proved."
    /\ premises = <<P, Join(P, Q, ">")>> /\ goal = Q
    /\ Len(theorems) = 3
    /\ rules[3].name = ">Elim"
    /\ indents[3] = 0
    /\ 3 \in Range(Priors(Ledger))
    /\ Str(theorems[3]) = Str(goal)

\* C23: a goal that every assignment satisfying all premises satisfies (for
\* example P from P & (Q v ~Q)) is never answered 'Not provable from given
\* premises.'.
C23_EntailedNotRejected ==
    (Len(premises) >= 1 /\ Entails(premises, goal)) =>
        outcome # "Not provable from given premises."

\* C24: for atomic Sentences A1..Ak and a binary connective c,
\* Sentence.connect([A1..Ak], c) has the same canonical text as (is == to) the
\* Sentence parsed from the flat chain 'A1 c A2 c ... c Ak'; and the join by c
\* of the Sentences parsed from the two halves of the chain has the same
\* canonical text as the Sentence parsed from the whole chain.
C24_ConnectAgreesWithParser ==
    \A ch \in Chains :
        (/\ phase = "built"
         /\ inText = ChainText(ch.ops, ch.conns)
         /\ \A i \in 1..Len(ch.conns) : ch.conns[i] = ch.conns[1]) =>
            LET c == ch.conns[1]
                atoms == [i \in 1..Len(ch.ops) |-> SentenceOf(<<ch.ops[i]>>)]
                num_args == Len(ch.ops) \div 2
                left == SubSeq(inText, 1, 2 * num_args - 1)
                right == SubSeq(inText, 2 * num_args + 1, Len(inText))
            IN /\ ~IsRaised(sentA)
               /\ Str(Connect(atoms, c)) = Str(sentA)
               /\ Str(Join(SentenceOf(left), SentenceOf(right), c)) = Str(sentA)

====
